---- MODULE Spec2Model ----
(***************************************************************************)
(* Model of the Release Sync action: the orchestrator (src/src/index.js),  *)
(* the GitHub adapter (src/src/platforms/github.js) and the Gitee adapter  *)
(* (src/src/platforms/gitee.js).  One step of the model is one awaited     *)
(* call of the code together with the synchronous code that follows it up  *)
(* to the next awaited call.                                               *)
(***************************************************************************)
EXTENDS Integers, Sequences, FiniteSets, TLC

\* ------------------------------------------------------------------ bounds
MaxPlatforms == 2
MaxAssets == 2
MaxRuns == 2
MaxPatterns == 2
MaxMatches == 2

\* ------------------------------------------------------------ input domains
\* identifiers after trim().toLowerCase() (index.js:31-34)
PlatformIds == {"github", "gitee", "gitlab", "constructor"}
\* core.getInput returns "" for an input that is not set
Tokens == {"", "tok"}
Owners == {"", "own"}
Repos == {"", "rep"}
Anchors == {"master", "main"}
Tags == {"v1.0.0"}
ReleaseNames == {"Release v1.0.0"}
Bodies == {"notes"}
Drafts == BOOLEAN
Prereleases == {FALSE}

SeqUpTo(S, n) == UNION {[1..m -> S] : m \in 0..n}

\* the resolved asset list: n distinct existing paths (index.js:51)
AssetList(n) == [j \in 1..n |-> j]

VARIABLES
    syncPlatforms,   \* index.js:31  parsed platform list
    inp,             \* index.js:39-62  the other inputs of the run
    run,             \* number of the current invocation of the action
    pc,              \* position of main / of the running adapter
    pidx,            \* position in syncPlatforms of the for-of loop (index.js:103)
    exitStatus,      \* "failed" once core.setFailed was called
    k,               \* asset loop index (github.js:76 index, gitee.js:160 i)
    releaseId,       \* github.js:68, gitee.js:126
    successCount,    \* gitee.js:155
    skipCount,       \* gitee.js:156
    failCount,       \* gitee.js:157
    ghReleases,      \* number of releases GitHub holds for the tag
    giteeTag,        \* TRUE iff the tag exists on Gitee
    giteeReleases,   \* number of releases Gitee holds for the tag
    calls,           \* network calls of the running adapter, in order
    history,         \* calls of the adapters that returned in this run, uploads left out
    outcomes,        \* per-asset outcomes of the running adapter, in order
    invoked,         \* positions whose adapter was invoked in this run
    fatalPos,        \* position whose adapter threw (0: none)
    atStart,         \* platform state when this run started
    inflight,        \* calls issued and not yet answered
    globbed,         \* fileHandler:24  the matches glob.sync gives for each pattern
    onDisk,          \* fileHandler:35  the paths existsSync finds
    platformsInput   \* index.js:31-32  the items of the platforms input

vars == <<syncPlatforms, inp, run, pc, pidx, exitStatus, k, releaseId,
          successCount, skipCount, failCount, ghReleases, giteeTag,
          giteeReleases, calls, history, outcomes, invoked, fatalPos, atStart,
          inflight, globbed, onDisk, platformsInput>>

inputVars == <<syncPlatforms, inp, run, atStart, globbed, onDisk, platformsInput>>
otherInputVars == <<syncPlatforms, run, atStart, globbed, onDisk, platformsInput>>
counterVars == <<successCount, skipCount, failCount>>
platformVars == <<ghReleases, giteeTag, giteeReleases>>
logVars == <<calls, history, outcomes, invoked>>
localVars == <<k, releaseId, successCount, skipCount, failCount>>

\* ------------------------------------------------------------- orchestrator
\* platforms[platform] (index.js:72): the exported object has the own keys
\* github and gitee; "constructor" is inherited from Object.prototype.
PlatformsLookup(p) == p \in {"github", "gitee", "constructor"}

\* mutant: every platform's configuration is required whatever is requested
PlatformCheckAllConfig(p, in) ==
    IF ~PlatformsLookup(p) THEN "unsupported"
    ELSE IF in.githubToken = "" THEN "github_missing"
    ELSE IF in.giteeToken = "" \/ in.giteeOwner = "" \/ in.giteeRepo = ""
         THEN "gitee_missing"
    ELSE "ok"

\* one iteration of the validation loop (index.js:70-94)
PlatformCheck(p, in) ==
    IF ~PlatformsLookup(p) THEN "unsupported"
    ELSE IF p = "github" /\ in.githubToken = "" THEN "github_missing"
    ELSE IF p = "gitee" /\ (in.giteeToken = "" \/ in.giteeOwner = "" \/ in.giteeRepo = "")
         THEN "gitee_missing"
    ELSE "ok"

\* mutant: only the first requested platform is validated
ValidateFirstOnly(sp, in) ==
    IF Len(sp) = 0 THEN "ok" ELSE PlatformCheck(sp[1], in)

\* the validation loop: the first error found, in list order (index.js:70-96)
ValidatePlatforms(sp, in) ==
    LET bad == {j \in 1..Len(sp) : PlatformCheck(sp[j], in) # "ok"}
    IN  IF bad = {} THEN "ok"
        ELSE PlatformCheck(sp[CHOOSE j \in bad : \A j2 \in bad : j <= j2], in)

\* a network call as the platform sees it
Call(pos, plat, op, tag, anchor, draft, rid, asset, res) ==
    [pos |-> pos, plat |-> plat, op |-> op, tag |-> tag, anchor |-> anchor,
     draft |-> draft, rid |-> rid, asset |-> asset, res |-> res]

BoolStr(b) == IF b THEN "true" ELSE "false"

Failures == {"http_500", "timeout"}
CallOutcomes == {"ok"} \cup Failures

\* mutant: the orchestrator logs the error and goes on with the next platform
MainCatchContinue ==
    /\ pc' = "dispatch"
    /\ pidx' = pidx + 1
    /\ exitStatus' = "failed"

\* mutant: the error leaves main uncaught and no status is set
MainCatchUnhandled ==
    /\ pc' = "thrown"
    /\ pidx' = pidx
    /\ exitStatus' = exitStatus

\* catch block of main (index.js:149-155)
MainCatch ==
    /\ pc' = "done"
    /\ pidx' = pidx
    /\ exitStatus' = "failed"

\* an adapter throws: the error reaches the catch block of main
Throw ==
    /\ fatalPos' = IF fatalPos = 0 THEN pidx ELSE fatalPos
    /\ MainCatch

\* mutant: the loop over the platforms does not advance
NextPositionSame(p) == p

\* the for-of loop over syncPlatforms goes on to the next entry (index.js:103)
NextPosition(p) == p + 1

\* the adapter goes on to its next awaited call
Goto(l) ==
    /\ pc' = l
    /\ UNCHANGED <<pidx, exitStatus, fatalPos>>

IsUpload(c) == c.op \in {"uploadReleaseAsset", "attach_files"}
NotUpload(c) == ~IsUpload(c)

\* an adapter returns (github.js:110, gitee.js:215-220): its locals are gone and
\* main goes on with the next platform (index.js:118-119, 134-135)
AdapterReturn ==
    /\ pc' = "dispatch"
    /\ pidx' = NextPosition(pidx)
    /\ history' = history \o SelectSeq(calls, NotUpload)
    /\ calls' = <<>>
    /\ outcomes' = <<>>
    /\ k' = 0
    /\ releaseId' = 0
    /\ successCount' = 0
    /\ skipCount' = 0
    /\ failCount' = 0
    /\ UNCHANGED <<inputVars, platformVars, exitStatus, fatalPos, invoked>>

\* ------------------------------------------------------- platform list input
\* item.trim().toLowerCase() (index.js:33)
Normalise(item) == IF item = " GitHub" THEN "github" ELSE item

\* the items in the order given, each kept at its first occurrence only
RECURSIVE FirstOccurrences(_, _)
FirstOccurrences(items, seen) ==
    IF items = <<>> THEN <<>>
    ELSE IF Head(items) \in seen THEN FirstOccurrences(Tail(items), seen)
    ELSE <<Head(items)>> \o FirstOccurrences(Tail(items), seen \cup {Head(items)})

\* mutant: an identifier given more than once is kept once
ParsePlatformsUnique(items) ==
    LET mapped == [j \in DOMAIN items |-> Normalise(items[j])]
        NonEmpty(x) == x # ""
    IN  FirstOccurrences(SelectSeq(mapped, NonEmpty), {})

\* .map(item => item.trim().toLowerCase()).filter(Boolean) (index.js:33-34)
ParsePlatforms(items) ==
    LET mapped == [j \in DOMAIN items |-> Normalise(items[j])]
        NonEmpty(x) == x # ""
    IN  SelectSeq(mapped, NonEmpty)

\* const syncPlatforms = ... (index.js:31-34)
ParseInput ==
    /\ pc = "parse"
    /\ syncPlatforms' = ParsePlatforms(platformsInput)
    /\ pc' = "validate"
    /\ UNCHANGED <<inp, run, atStart, globbed, onDisk, platformsInput, localVars,
                   platformVars, logVars, pidx, exitStatus, fatalPos, inflight>>

\* ------------------------------------------------------------ asset resolver
\* flatMap (fileHandler:23-33): the matches of all patterns, in pattern order
RECURSIVE Flatten(_)
Flatten(lists) ==
    IF lists = <<>> THEN <<>> ELSE Head(lists) \o Flatten(Tail(lists))

\* self.indexOf(filePath) (fileHandler:35): the first place of x in self
IndexOf(self, x) ==
    CHOOSE i \in DOMAIN self : self[i] = x /\ \A j \in 1..(i - 1) : self[j] # x

\* mutant: a path is kept whether or not it came up before
FileKeptIfExists(self, index, disk) == self[index] \in disk

\* the filter callback (fileHandler:34-50): kept if it exists and is unique
FileKept(self, index, disk) ==
    LET isUnique == IndexOf(self, self[index]) = index
        fileExists == self[index] \in disk
    IN  IF ~fileExists THEN FALSE
        ELSE IF ~isUnique THEN FALSE
        ELSE TRUE

\* Array.prototype.filter from place index on (fileHandler:34)
RECURSIVE FilterFrom(_, _, _)
FilterFrom(self, index, disk) ==
    IF index > Len(self) THEN <<>>
    ELSE (IF FileKept(self, index, disk) THEN <<self[index]>> ELSE <<>>)
            \o FilterFrom(self, index + 1, disk)

\* resolveAssetFiles (fileHandler:7-51), given what glob.sync returns for each
\* pattern of the input and the paths that exist
resolveAssetFiles(matches, disk) ==
    IF matches = <<>> THEN <<>> ELSE FilterFrom(Flatten(matches), 1, disk)

\* const assetFiles = resolveAssetFiles(assetInput) (index.js:49-51)
ResolveAssets ==
    /\ pc = "resolve"
    /\ inp' = [inp EXCEPT !.assetFiles = resolveAssetFiles(globbed, onDisk)]
    /\ pc' = "validate"
    /\ UNCHANGED <<otherInputVars, localVars, platformVars, logVars, pidx, exitStatus,
                   fatalPos, inflight>>

\* the positions of an adapter at an awaited network call
CallPcs == {"gh_createRelease", "gh_upload", "gt_getTag", "gt_createTag",
            "gt_createRelease", "gt_getRelease", "gt_upload"}

\* mutant: a call is issued while another one is still in flight
MayIssueAlways == TRUE

\* every call is awaited (github.js:57, 92; gitee.js:47, 71, 107, 131, 189):
\* the code reaches a call only when no call is pending
MayIssue == inflight = <<>>

\* the request of an awaited call goes out
IssueCall ==
    /\ pc \in CallPcs
    /\ MayIssue
    /\ inflight' = Append(inflight, [pos |-> pidx, op |-> pc, asset |-> k])
    /\ UNCHANGED <<inputVars, localVars, platformVars, logVars, pc, pidx, exitStatus,
                   fatalPos>>

\* the call in flight is answered: the await resumes
Answered ==
    /\ inflight # <<>>
    /\ inflight' = Tail(inflight)

\* index.js:65-96
Validate ==
    /\ pc = "validate"
    /\ UNCHANGED inflight
    /\ IF ValidatePlatforms(syncPlatforms, inp) # "ok"
       THEN pc' = "done" /\ exitStatus' = "failed"
       ELSE pc' = "dispatch" /\ exitStatus' = exitStatus
    /\ pidx' = 1
    /\ UNCHANGED <<inputVars, localVars, platformVars, logVars, fatalPos>>

\* case 'github' (index.js:107-109) up to the first awaited call (github.js:57)
StartGitHub ==
    /\ pc = "dispatch"
    /\ UNCHANGED inflight
    /\ pidx <= Len(syncPlatforms)
    /\ syncPlatforms[pidx] = "github"
    /\ pc' = "gh_createRelease"
    /\ invoked' = Append(invoked, pidx)
    /\ UNCHANGED <<inputVars, localVars, platformVars, calls, history, outcomes,
                   pidx, exitStatus, fatalPos>>

\* case 'gitee' (index.js:121-123) up to the first awaited call (gitee.js:47)
StartGitee ==
    /\ pc = "dispatch"
    /\ UNCHANGED inflight
    /\ pidx <= Len(syncPlatforms)
    /\ syncPlatforms[pidx] = "gitee"
    /\ pc' = "gt_getTag"
    /\ invoked' = Append(invoked, pidx)
    /\ UNCHANGED <<inputVars, localVars, platformVars, calls, history, outcomes,
                   pidx, exitStatus, fatalPos>>

\* default case (index.js:137-140): warn and go on
SkipUnexpected ==
    /\ pc = "dispatch"
    /\ UNCHANGED inflight
    /\ pidx <= Len(syncPlatforms)
    /\ syncPlatforms[pidx] \notin {"github", "gitee"}
    /\ pidx' = NextPosition(pidx)
    /\ UNCHANGED <<inputVars, localVars, platformVars, logVars, pc, exitStatus, fatalPos>>

\* the loop over the platforms is over (index.js:142-147)
Completed ==
    /\ pc = "dispatch"
    /\ UNCHANGED inflight
    /\ pidx > Len(syncPlatforms)
    /\ pc' = "done"
    /\ UNCHANGED <<inputVars, localVars, platformVars, logVars, pidx, exitStatus, fatalPos>>

\* ------------------------------------------------------------ GitHub adapter
\* GitHub refuses a second release for a tag (already_exists)
GhCreateOutcomes == IF ghReleases > 0 THEN Failures ELSE CallOutcomes

\* mutant: the draft flag is handed to the Gitee adapter as well
GiteeOptionsWithDraft(in) ==
    [token |-> in.giteeToken, owner |-> in.giteeOwner, repo |-> in.giteeRepo,
     tag |-> in.tag, releaseName |-> in.releaseName, body |-> in.body,
     draft |-> in.draft, prerelease |-> in.prerelease,
     targetCommitish |-> in.giteeTargetCommitish, assetFiles |-> in.assetFiles]

\* the options main hands to platforms.gitee (index.js:123-133)
GiteeOptions(in) ==
    [token |-> in.giteeToken, owner |-> in.giteeOwner, repo |-> in.giteeRepo,
     tag |-> in.tag, releaseName |-> in.releaseName, body |-> in.body,
     prerelease |-> in.prerelease,
     targetCommitish |-> in.giteeTargetCommitish, assetFiles |-> in.assetFiles]

\* the options main hands to platforms.github (index.js:109-117)
GitHubOptions(in) ==
    [token |-> in.githubToken, tag |-> in.tag, releaseName |-> in.releaseName,
     body |-> in.body, draft |-> in.draft, prerelease |-> in.prerelease,
     assetFiles |-> in.assetFiles]

\* the parameters of the running adapter (github.js:26-34, gitee.js:28-38)
GhOpts == GitHubOptions(inp)
GtOpts == GiteeOptions(inp)

\* mutant: the loop takes each asset off the list it walks (shift)
AssetsShifted(files) == Tail(files)

\* for (const [index, filePath] of assetFiles.entries()) (github.js:76,
\* gitee.js:160): the asset list after an iteration over it, which reads
\* the list by index and writes nothing to it
AssetsAfterIteration(files) == files

\* mutant: the loop does not move on to the next asset
GhLoopNextRepeat ==
    k' = k /\ Goto("gh_getFileInfo") /\ UNCHANGED inp

\* end of one iteration of the asset loop (github.js:76, 86, 101-103)
GhLoopNext ==
    /\ inp' = [inp EXCEPT !.assetFiles = AssetsAfterIteration(@)]
    /\ IF k < Len(GhOpts.assetFiles)
       THEN k' = k + 1 /\ Goto("gh_getFileInfo")
       ELSE k' = k /\ Goto("gh_return")

\* mutant: the adapter swallows the error and returns
GhCatchSwallow == Goto("gh_return")

\* catch (error) of the adapter (github.js:112-120): setFailed and rethrow
GhCatch == Throw

\* octokit.rest.repos.createRelease (github.js:57-76) and its catch (112-120)
GhCreateRelease ==
    /\ pc = "gh_createRelease"
    /\ Answered
    /\ \E o \in GhCreateOutcomes :
        /\ calls' = Append(calls, Call(pidx, "github", "createRelease", GhOpts.tag, "",
                                       BoolStr(GhOpts.draft), 0, 0, o))
        /\ IF o = "ok"
           THEN /\ ghReleases' = ghReleases + 1
                /\ releaseId' = ghReleases + 1
                /\ IF Len(GhOpts.assetFiles) > 0
                   THEN k' = 1 /\ Goto("gh_getFileInfo")
                   ELSE k' = k /\ Goto("gh_return")
           ELSE /\ GhCatch
                /\ UNCHANGED <<ghReleases, releaseId, k>>
    /\ UNCHANGED <<inputVars, counterVars, giteeTag, giteeReleases, history, outcomes,
                   invoked>>

\* mutant: an asset that cannot be read ends the adapter run with an error
GhFileInfoAbsentThrows == GhCatch /\ k' = k /\ UNCHANGED inp

\* if (!fileInfo) { warning; continue } (github.js:84-87)
GhFileInfoAbsent == GhLoopNext

\* getFileInfo (github.js:81-87, fileHandler getFileInfo)
GhGetFileInfo ==
    /\ pc = "gh_getFileInfo"
    /\ UNCHANGED inflight
    /\ \E readable \in BOOLEAN :
        IF readable
        THEN /\ Goto("gh_upload")
             /\ UNCHANGED <<k, outcomes, inp>>
        ELSE /\ outcomes' = Append(outcomes, "skipped")
             /\ GhFileInfoAbsent
    /\ UNCHANGED <<otherInputVars, releaseId, counterVars, platformVars, calls,
                   history, invoked>>

\* octokit.rest.repos.uploadReleaseAsset (github.js:92-100) and the catch (112-120)
GhUpload ==
    /\ pc = "gh_upload"
    /\ Answered
    /\ \E o \in CallOutcomes :
        /\ calls' = Append(calls, Call(pidx, "github", "uploadReleaseAsset", "", "", "",
                                       releaseId, GhOpts.assetFiles[k], o))
        /\ IF o = "ok"
           THEN /\ outcomes' = Append(outcomes, "uploaded")
                /\ GhLoopNext
           ELSE /\ outcomes' = Append(outcomes, "failed")
                /\ k' = k
                /\ GhCatch
                /\ UNCHANGED inp
    /\ UNCHANGED <<otherInputVars, releaseId, counterVars, platformVars, history,
                   invoked>>

\* return releaseResponse.data (github.js:103-110)
GhReturn ==
    /\ pc = "gh_return"
    /\ UNCHANGED inflight
    /\ AdapterReturn

\* ------------------------------------------------------------- Gitee adapter
\* what axios reports for the tag probe: "ok" is a 2xx response, "http_*" an
\* error with error.response set, "timeout" and "network" errors without one
ProbeFailures == {"http_500", "timeout", "network"}
ProbeOutcomes == IF giteeTag THEN {"ok"} \cup ProbeFailures
                 ELSE {"http_404"} \cup ProbeFailures

HasResponse(o) == o \in {"http_404", "http_500"}
Status(o) == IF o = "http_404" THEN 404 ELSE IF o = "http_500" THEN 500 ELSE 0

\* mutant: every error response counts as "tag not found"
IsNotFoundAnyStatus(o) == HasResponse(o)

\* error.response && error.response.status === 404 (gitee.js:56)
IsNotFound(o) == HasResponse(o) /\ Status(o) = 404

\* mutant: the tag is created whether or not the probe found it
ProbeNextAlwaysCreate(o) ==
    IF o = "ok" \/ IsNotFound(o) THEN "gt_createTag" ELSE "throw"

\* mutant: an error without a response counts as "tag not found"
ProbeNextNoResponseCreates(o) ==
    IF o = "ok" THEN "gt_createRelease"
    ELSE IF IsNotFound(o) \/ ~HasResponse(o) THEN "gt_createTag"
    ELSE "throw"

\* where the adapter goes after the tag probe (gitee.js:45-86)
ProbeNext(o) ==
    IF o = "ok" THEN "gt_createRelease"
    ELSE IF IsNotFound(o) THEN "gt_createTag"
    ELSE "throw"

\* mutant: the tag is created without the refs field
TagDataNoRefs(tag, targetCommitish) == [tag_name |-> tag, refs |-> ""]

\* form data of the tag-create call (gitee.js:59-62)
TagData(tag, targetCommitish) == [tag_name |-> tag, refs |-> targetCommitish]

\* axios.get .../tags/<tag> (gitee.js:45-58, 82-85)
GtGetTag ==
    /\ pc = "gt_getTag"
    /\ Answered
    /\ \E o \in ProbeOutcomes :
        /\ calls' = Append(calls, Call(pidx, "gitee", "getTag", GtOpts.tag, "", "", 0, 0, o))
        /\ IF ProbeNext(o) = "throw" THEN Throw ELSE Goto(ProbeNext(o))
    /\ UNCHANGED <<inputVars, localVars, platformVars, history, outcomes, invoked>>

\* mutant: the adapter goes on to the release whatever the tag creation gave
TagCreateNextAlways(o) == "gt_createRelease"

\* try { post tags } catch { throw } (gitee.js:70-81): where the adapter goes
\* after the tag-create call
TagCreateNext(o) == IF o = "ok" THEN "gt_createRelease" ELSE "throw"

\* axios.post .../tags (gitee.js:59-81); a failure is thrown from the catch block
GtCreateTag ==
    /\ pc = "gt_createTag"
    /\ Answered
    /\ \E o \in CallOutcomes :
        LET tagData == TagData(GtOpts.tag, GtOpts.targetCommitish) IN
        /\ calls' = Append(calls, Call(pidx, "gitee", "createTag", tagData.tag_name,
                                       tagData.refs, "", 0, 0, o))
        /\ giteeTag' = (giteeTag \/ o = "ok")
        /\ IF TagCreateNext(o) = "throw" THEN Throw ELSE Goto(TagCreateNext(o))
    /\ UNCHANGED <<inputVars, localVars, ghReleases, giteeReleases, history, outcomes,
                   invoked>>

\* mutant: the release identifier is looked up whatever the asset list
AfterReleaseCreatedAlwaysLookup(assetFiles) == "gt_getRelease"

\* if (assetFiles && assetFiles.length > 0) (gitee.js:124) and its else
\* branch (211-213): the lookup is part of the upload step
AfterReleaseCreated(assetFiles) ==
    IF Len(assetFiles) > 0 THEN "gt_getRelease" ELSE "gt_return"

\* axios.post .../releases (gitee.js:88-124) and, without assets, lines 211-213
GtCreateRelease ==
    /\ pc = "gt_createRelease"
    /\ Answered
    /\ \E o \in CallOutcomes :
        /\ calls' = Append(calls, Call(pidx, "gitee", "createRelease", GtOpts.tag,
                                       GtOpts.targetCommitish, "", 0, 0, o))
        /\ IF o = "ok"
           THEN /\ giteeReleases' = giteeReleases + 1
                /\ Goto(AfterReleaseCreated(GtOpts.assetFiles))
           ELSE /\ giteeReleases' = giteeReleases
                /\ Throw
    /\ UNCHANGED <<inputVars, localVars, ghReleases, giteeTag, history, outcomes, invoked>>

\* responses of the lookup: "ok_noid" is a 2xx response without data.id
LookupOutcomes == {"ok", "ok_noid"} \cup Failures

\* mutant: a response without an identifier is taken as a release
HasReleaseIdAny2xx(o) == o \in {"ok", "ok_noid"}

\* if (releaseResponse.data && releaseResponse.data.id) (gitee.js:143)
HasReleaseId(o) == o = "ok"

\* axios.get .../releases/tags/<tag> (gitee.js:126-160)
GtGetRelease ==
    /\ pc = "gt_getRelease"
    /\ Answered
    /\ \E o \in LookupOutcomes :
        /\ calls' = Append(calls, Call(pidx, "gitee", "getReleaseByTag", GtOpts.tag, "", "",
                                       0, 0, o))
        /\ IF HasReleaseId(o)
           THEN /\ releaseId' = giteeReleases
                /\ successCount' = 0
                /\ skipCount' = 0
                /\ failCount' = 0
                /\ k' = 1
                /\ Goto("gt_getFileInfo")
           ELSE /\ Throw
                /\ UNCHANGED localVars
    /\ UNCHANGED <<inputVars, platformVars, history, outcomes, invoked>>

\* end of one iteration of the asset loop (gitee.js:160, 170, 205-210)
GtLoopNext ==
    /\ inp' = [inp EXCEPT !.assetFiles = AssetsAfterIteration(@)]
    /\ IF k < Len(GtOpts.assetFiles)
       THEN k' = k + 1 /\ Goto("gt_getFileInfo")
       ELSE k' = k /\ Goto("gt_return")

\* if (!fileInfo) { skipCount++; continue } (gitee.js:167-171)
GtFileInfoAbsent == GtLoopNext

\* getFileInfo (gitee.js:165-171, fileHandler getFileInfo)
GtGetFileInfo ==
    /\ pc = "gt_getFileInfo"
    /\ UNCHANGED inflight
    /\ \E readable \in BOOLEAN :
        IF readable
        THEN /\ Goto("gt_upload")
             /\ UNCHANGED <<k, outcomes, counterVars, inp>>
        ELSE /\ skipCount' = skipCount + 1
             /\ outcomes' = Append(outcomes, "skipped")
             /\ GtFileInfoAbsent
             /\ UNCHANGED <<successCount, failCount>>
    /\ UNCHANGED <<otherInputVars, releaseId, platformVars, calls, history, invoked>>

\* mutant: a failed upload is thrown on to the caller
GtUploadCatchRethrow == Throw /\ k' = k /\ UNCHANGED inp

\* catch (uploadError) (gitee.js:202-206): the failure is logged and counted,
\* and the loop goes on with the next asset
GtUploadCatch == GtLoopNext

\* axios.post .../attach_files (gitee.js:173-206)
GtUpload ==
    /\ pc = "gt_upload"
    /\ Answered
    /\ \E o \in CallOutcomes :
        /\ calls' = Append(calls, Call(pidx, "gitee", "attach_files", "", "", "",
                                       releaseId, GtOpts.assetFiles[k], o))
        /\ IF o = "ok"
           THEN /\ successCount' = successCount + 1
                /\ outcomes' = Append(outcomes, "uploaded")
                /\ UNCHANGED <<skipCount, failCount>>
                /\ GtLoopNext
           ELSE /\ failCount' = failCount + 1
                /\ outcomes' = Append(outcomes, "failed")
                /\ UNCHANGED <<successCount, skipCount>>
                /\ GtUploadCatch
    /\ UNCHANGED <<otherInputVars, releaseId, platformVars, history, invoked>>

\* the summary and the end of the adapter (gitee.js:210-215)
GtReturn ==
    /\ pc = "gt_return"
    /\ UNCHANGED inflight
    /\ AdapterReturn

\* ---------------------------------------------------------------- the runs
\* the action is run again with the same inputs (index.js:159-160): a fresh
\* process, while the platforms keep their state
NextRun ==
    /\ pc = "done"
    /\ run < MaxRuns
    /\ run' = run + 1
    /\ atStart' = [ghReleases |-> ghReleases, giteeTag |-> giteeTag,
                   giteeReleases |-> giteeReleases]
    /\ pc' = "validate"
    /\ pidx' = 0
    /\ exitStatus' = "success"
    /\ k' = 0
    /\ releaseId' = 0
    /\ successCount' = 0
    /\ skipCount' = 0
    /\ failCount' = 0
    /\ calls' = <<>>
    /\ history' = <<>>
    /\ outcomes' = <<>>
    /\ invoked' = <<>>
    /\ fatalPos' = 0
    /\ inflight' = <<>>
    /\ UNCHANGED <<syncPlatforms, inp, platformVars, globbed, onDisk, platformsInput>>

Inputs ==
    [tag : Tags, releaseName : ReleaseNames, body : Bodies, draft : Drafts,
     prerelease : Prereleases,
     assetFiles : {AssetList(n) : n \in 0..MaxAssets},
     githubToken : Tokens, giteeToken : Tokens, giteeOwner : Owners,
     giteeRepo : Repos, giteeTargetCommitish : Anchors]

Init ==
    /\ syncPlatforms \in SeqUpTo(PlatformIds, MaxPlatforms)
    /\ inp \in Inputs
    /\ run = 1
    /\ ghReleases = 0
    /\ giteeTag \in BOOLEAN
    /\ giteeReleases = 0
    /\ atStart = [ghReleases |-> 0, giteeTag |-> giteeTag, giteeReleases |-> 0]
    /\ pc = "validate"
    /\ pidx = 0
    /\ exitStatus = "success"
    /\ k = 0
    /\ releaseId = 0
    /\ successCount = 0
    /\ skipCount = 0
    /\ failCount = 0
    /\ calls = <<>>
    /\ history = <<>>
    /\ outcomes = <<>>
    /\ invoked = <<>>
    /\ fatalPos = 0
    /\ inflight = <<>>
    /\ globbed = <<inp.assetFiles>>
    /\ onDisk = {inp.assetFiles[j] : j \in DOMAIN inp.assetFiles}
    /\ platformsInput = syncPlatforms

Next ==
    \/ IssueCall
    \/ Validate
    \/ StartGitHub
    \/ StartGitee
    \/ SkipUnexpected
    \/ Completed
    \/ GhCreateRelease
    \/ GhGetFileInfo
    \/ GhUpload
    \/ GhReturn
    \/ GtGetTag
    \/ GtCreateTag
    \/ GtCreateRelease
    \/ GtGetRelease
    \/ GtGetFileInfo
    \/ GtUpload
    \/ GtReturn
    \/ NextRun

Spec == Init /\ [][Next]_vars

\* ------------------------------------------------------------ observations
\* the calls of this run in the order they were issued
AllCalls == history \o calls

\* indices in AllCalls of the calls of operation op by the adapter at position p
Idx(p, op) == {j \in DOMAIN AllCalls : AllCalls[j].pos = p /\ AllCalls[j].op = op}

\* the adapter at position p stands before the awaited call l
At(p, l) == pidx = p /\ pc = l

Positions == 1..Len(syncPlatforms)

GiteeConfigMissing ==
    inp.giteeToken = "" \/ inp.giteeOwner = "" \/ inp.giteeRepo = ""

\* a requested platform lacks a required configuration field
Misconfigured ==
    \E j \in Positions :
        \/ syncPlatforms[j] = "github" /\ inp.githubToken = ""
        \/ syncPlatforms[j] = "gitee" /\ GiteeConfigMissing

NumOk(plat) ==
    Cardinality({j \in DOMAIN AllCalls : /\ AllCalls[j].plat = plat
                                         /\ AllCalls[j].op = "createRelease"
                                         /\ AllCalls[j].res = "ok"})

\* C1: if a requested platform lacks a required configuration field, no adapter
\* is invoked, no network call is issued for any platform of the list, and the
\* run ends with failed status.
C1_NoCallWhenMisconfigured ==
    Misconfigured =>
        /\ invoked = <<>>
        /\ AllCalls = <<>>
        /\ pc \in {"validate", "done"}
        /\ (pc = "done" => exitStatus = "failed")

\* the platform listed second is misconfigured, the first one is not
C1_Witness ==
    /\ syncPlatforms = <<"github", "gitee">>
    /\ inp.githubToken # ""
    /\ inp.giteeToken # "" /\ inp.giteeOwner # "" /\ inp.giteeRepo = ""
    /\ pc = "done"
    /\ exitStatus = "failed"

\* C2: once an adapter has raised a fatal error, no adapter of a later platform
\* is invoked and no call is issued for one, the run is over, and nothing
\* committed before is taken back: only probe, lookup, create and upload calls
\* are issued and every release created in this run is still on its platform.
C2_FatalStopsLaterPlatforms ==
    fatalPos # 0 =>
        /\ pc = "done"
        /\ \A j \in DOMAIN invoked : invoked[j] <= fatalPos
        /\ \A j \in DOMAIN AllCalls :
            /\ AllCalls[j].pos <= fatalPos
            /\ AllCalls[j].op \in {"createRelease", "uploadReleaseAsset", "getTag",
                                   "createTag", "getReleaseByTag", "attach_files"}
        /\ ghReleases = atStart.ghReleases + NumOk("github")
        /\ giteeReleases = atStart.giteeReleases + NumOk("gitee")
        /\ (atStart.giteeTag => giteeTag)

\* the GitHub adapter of the list [github, gitee] raised a fatal error
C2_Witness ==
    /\ syncPlatforms = <<"github", "gitee">>
    /\ fatalPos = 1
    /\ pc = "done"
    /\ \E j \in DOMAIN AllCalls : AllCalls[j].plat = "github" /\ AllCalls[j].res # "ok"

\* C3: in the GitHub adapter a failed upload call does not stop the asset loop:
\* after it the loop is still running or every asset has been processed.
C3_UploadFailureDoesNotStopLoop ==
    (\E j \in DOMAIN calls : /\ calls[j].op = "uploadReleaseAsset"
                             /\ calls[j].res \in Failures)
        => \/ pc \in {"gh_getFileInfo", "gh_upload"}
           \/ Len(outcomes) = Len(inp.assetFiles)

\* a configuration error was reported by the validation
ConfigErrorOccurred == ValidatePlatforms(syncPlatforms, inp) # "ok"

\* a tag probe failed other than with not-found, or a tag creation, a release
\* creation or a release-identifier lookup failed
FatalPhaseErrorOccurred ==
    \E j \in DOMAIN AllCalls :
        \/ AllCalls[j].op = "getTag" /\ AllCalls[j].res \in ProbeFailures
        \/ /\ AllCalls[j].op \in {"createTag", "createRelease", "getReleaseByTag"}
           /\ AllCalls[j].res # "ok"

\* C4: the final status is failure if and only if a configuration error or a
\* fatal phase error occurred; per-asset failures alone leave it at success.
C4_FailedIffConfigOrFatalPhase ==
    pc = "done" =>
        (exitStatus = "failed" <=> (ConfigErrorOccurred \/ FatalPhaseErrorOccurred))

Requested(plat) == \E j \in Positions : syncPlatforms[j] = plat

\* C5: a second run for a tag whose release already exists on every requested
\* platform ends without a fatal error and leaves exactly one release there.
C5_SecondRunReusesRelease ==
    ( /\ run >= 2
      /\ pc = "done"
      /\ ~ConfigErrorOccurred
      /\ Requested("github") \/ Requested("gitee")
      /\ Requested("github") => atStart.ghReleases = 1
      /\ Requested("gitee") => atStart.giteeReleases = 1 )
    => /\ fatalPos = 0
       /\ exitStatus = "success"
       /\ Requested("github") => ghReleases = 1
       /\ Requested("gitee") => giteeReleases = 1

\* the assets of the running adapter that ended as kind
Count(kind) == Cardinality({j \in DOMAIN outcomes : outcomes[j] = kind})

\* C6: in both adapters uploaded + skipped + failed is the number of assets
\* processed so far after every loop step, and the number of resolved assets
\* when an adapter run that entered the loop ends.
C6_CountsSumToAssets ==
    /\ pc \in {"gh_getFileInfo", "gh_upload"} =>
        Count("uploaded") + Count("skipped") + Count("failed") = k - 1
    /\ pc \in {"gt_getFileInfo", "gt_upload"} =>
        successCount + skipCount + failCount = k - 1
    /\ (pc = "gt_return" /\ Len(inp.assetFiles) > 0) =>
        successCount + skipCount + failCount = Len(inp.assetFiles)
    /\ ((pc = "gh_return" /\ Len(inp.assetFiles) > 0) \/ (pc = "done" /\ outcomes # <<>>)) =>
        Count("uploaded") + Count("skipped") + Count("failed") = Len(inp.assetFiles)

FoundAt(p) == \E j \in Idx(p, "getTag") : AllCalls[j].res = "ok"
NotFoundAt(p) == \E j \in Idx(p, "getTag") : AllCalls[j].res = "http_404"
ProbeFailedAt(p) == \E j \in Idx(p, "getTag") : AllCalls[j].res \in ProbeFailures

\* C7: in a Gitee adapter run whose tag probe returned found, no tag-create
\* call is issued, and exactly one release-create call is, after the probe.
C7_FoundThenOneReleaseCreate ==
    \A p \in Positions :
        FoundAt(p) =>
            /\ Idx(p, "createTag") = {}
            /\ Cardinality(Idx(p, "createRelease")) =
                   (IF At(p, "gt_createRelease") THEN 0 ELSE 1)
            /\ \A g \in Idx(p, "getTag") : \A r \in Idx(p, "createRelease") : g < r

C7_Witness ==
    /\ pc = "done"
    /\ \E p \in Positions :
        /\ FoundAt(p)
        /\ Cardinality(Idx(p, "createRelease")) = 1
        /\ Idx(p, "createTag") = {}

\* C8: in a Gitee adapter run whose tag probe returned not-found, exactly one
\* tag-create call is issued, after the probe, with the requested tag and the
\* configured target anchor; when it succeeds exactly one release-create call
\* follows it.
C8_NotFoundThenTagCreate ==
    \A p \in Positions :
        NotFoundAt(p) =>
            /\ Cardinality(Idx(p, "createTag")) = (IF At(p, "gt_createTag") THEN 0 ELSE 1)
            /\ \A t \in Idx(p, "createTag") :
                /\ AllCalls[t].tag = inp.tag
                /\ AllCalls[t].anchor = inp.giteeTargetCommitish
                /\ \A g \in Idx(p, "getTag") : g < t
                /\ AllCalls[t].res = "ok" =>
                    /\ Cardinality(Idx(p, "createRelease")) =
                           (IF At(p, "gt_createRelease") THEN 0 ELSE 1)
                    /\ \A r \in Idx(p, "createRelease") : t < r

C8_Witness ==
    /\ pc = "done"
    /\ \E p \in Positions :
        /\ NotFoundAt(p)
        /\ \E t \in Idx(p, "createTag") :
            /\ AllCalls[t].res = "ok"
            /\ AllCalls[t].anchor = "main"
            /\ \E r \in Idx(p, "createRelease") : t < r

\* C9: a Gitee adapter run whose tag probe failed with anything but not-found
\* (an error response other than 404, a network error, a timeout) is fatal and
\* issues no tag-create and no release-create call.
C9_ProbeErrorIsFatal ==
    \A p \in Positions :
        ProbeFailedAt(p) =>
            /\ fatalPos = p
            /\ pc = "done"
            /\ exitStatus = "failed"
            /\ Idx(p, "createTag") = {}
            /\ Idx(p, "createRelease") = {}

\* the probe timed out while the tag did not exist
C9_Witness ==
    /\ pc = "done"
    /\ ~giteeTag
    /\ \E p \in Positions : \E j \in Idx(p, "getTag") : AllCalls[j].res = "timeout"

\* C10: a run after the first that starts with the tag on the platform issues
\* no tag-create call.
C10_NoTagCreateWhenTagExists ==
    (run >= 2 /\ atStart.giteeTag) =>
        \A j \in DOMAIN AllCalls : AllCalls[j].op # "createTag"

\* the second run probed the tag, found it and went on to create the release
C10_Witness ==
    /\ run = 2
    /\ atStart.giteeTag
    /\ \E p \in Positions : FoundAt(p) /\ Idx(p, "createRelease") # {}

\* C11: a platform list with an identifier other than github and gitee ends the
\* run with failed status, and no adapter is invoked and no network call is
\* made for any platform of the list.
C11_UnknownPlatformFails ==
    (\E j \in Positions : syncPlatforms[j] \notin {"github", "gitee"}) =>
        /\ invoked = <<>>
        /\ AllCalls = <<>>
        /\ (pc = "done" => exitStatus = "failed")

\* C12: adapters are invoked in list order, and a call for a position is issued
\* only after the adapter of every earlier github or gitee entry has been
\* invoked and has returned without a fatal error.
C12_AdaptersInListOrder ==
    LET all == AllCalls
        called == {all[j].pos : j \in DOMAIN all}
    IN  /\ \A j \in 1..(Len(invoked) - 1) : invoked[j] < invoked[j + 1]
        /\ \A j \in DOMAIN calls :
            /\ calls[j].pos = pidx
            /\ calls[j].plat = syncPlatforms[pidx]
        /\ \A j \in DOMAIN history : history[j].pos < pidx
        /\ \A j \in 1..(Len(all) - 1) : all[j].pos <= all[j + 1].pos
        /\ all # <<>> => ~ConfigErrorOccurred
        /\ \A p \in called :
            \A q \in 1..(p - 1) :
                /\ fatalPos # q
                /\ syncPlatforms[q] \in {"github", "gitee"} =>
                    /\ \E i \in DOMAIN invoked : invoked[i] = q
                    /\ \E i \in DOMAIN history : history[i].pos = q

\* the second platform of the list is being served after the first has returned
C12_Witness ==
    /\ syncPlatforms = <<"gitee", "github">>
    /\ \E j \in DOMAIN calls : calls[j].pos = 2
    /\ \E j \in DOMAIN history : history[j].pos = 1 /\ history[j].op = "createRelease"

GhUploads == {j \in DOMAIN calls : calls[j].op = "uploadReleaseAsset"}

\* C13: a GitHub adapter run without assets whose release-create call succeeds
\* issues that one call and no upload, and the run of the list [github] then
\* ends with success; for any asset list the adapter issues one release-create
\* call at most, at most one upload call per resolved asset, and no upload
\* before the release-create call has returned the release identifier.
C13_GitHubCreateThenUploads ==
    /\ (pc = "gh_return" /\ inp.assetFiles = <<>>) =>
        /\ Len(calls) = 1
        /\ calls[1].op = "createRelease" /\ calls[1].res = "ok"
    /\ ( /\ pc = "done"
         /\ syncPlatforms = <<"github">>
         /\ inp.assetFiles = <<>>
         /\ \E j \in DOMAIN AllCalls : AllCalls[j].res = "ok" ) =>
        /\ Len(AllCalls) = 1
        /\ AllCalls[1].op = "createRelease"
        /\ exitStatus = "success"
    /\ Cardinality({j \in DOMAIN calls : /\ calls[j].plat = "github"
                                         /\ calls[j].op = "createRelease"}) <= 1
    /\ \A j \in GhUploads :
        /\ \E i \in 1..(j - 1) : /\ calls[i].op = "createRelease"
                                 /\ calls[i].res = "ok"
        /\ releaseId # 0
        /\ calls[j].rid = releaseId
        /\ \E a \in DOMAIN inp.assetFiles : inp.assetFiles[a] = calls[j].asset
        /\ \A j2 \in GhUploads : j2 # j => calls[j2].asset # calls[j].asset

\* the run of [github] without assets has ended after its one call
C13_Witness ==
    /\ pc = "done"
    /\ syncPlatforms = <<"github">>
    /\ inp.assetFiles = <<>>
    /\ exitStatus = "success"
    /\ Len(AllCalls) = 1
    /\ AllCalls[1].op = "createRelease"

\* the place in the asset list of the path a
AssetIndex(a) == CHOOSE i \in DOMAIN inp.assetFiles : inp.assetFiles[i] = a

Uploads == {j \in DOMAIN calls : IsUpload(calls[j])}

\* C14: at most one call is in flight, and it is the call the running adapter
\* stands at; no call is in flight between adapters; the read of an asset
\* starts, and its upload goes out, only when every asset before it in the list
\* has been dealt with, and the uploads follow the order of the list.
C14_OneCallInFlight ==
    /\ Len(inflight) <= 1
    /\ \A j \in DOMAIN inflight :
        /\ inflight[j].pos = pidx
        /\ inflight[j].op = pc
    /\ pc \notin CallPcs => inflight = <<>>
    /\ pc \in {"gh_getFileInfo", "gt_getFileInfo", "gh_upload", "gt_upload"} =>
        /\ Len(outcomes) = k - 1
        /\ \A j \in DOMAIN inflight : inflight[j].asset = k
        /\ \A j \in Uploads : AssetIndex(calls[j].asset) < k
    /\ \A i, j \in Uploads :
        i < j => AssetIndex(calls[i].asset) < AssetIndex(calls[j].asset)

\* the upload of the second asset is in flight after the first asset was uploaded
C14_Witness ==
    /\ pc = "gt_upload"
    /\ k = 2
    /\ Len(inflight) = 1
    /\ outcomes = <<"uploaded">>

\* the release request: the inputs the adapters are given
Request(in) ==
    <<in.tag, in.releaseName, in.body, in.draft, in.prerelease,
      in.giteeTargetCommitish, in.assetFiles>>

\* C15: no step of a run changes the tag, the release name, the body, the draft
\* and prerelease flags, the target anchor or the asset list, so the adapter at
\* every position works on the request the run started with.
C15_RequestUnchanged ==
    [][run' = run => Request(inp)' = Request(inp)]_vars

\* a second adapter is at its second asset after the first adapter went over
\* the whole list
C15_Witness ==
    /\ Len(invoked) = 2
    /\ Len(inp.assetFiles) >= 2
    /\ pc \in {"gh_upload", "gt_upload"}
    /\ k = 2

\* the run that differs from this one only in the draft flag
DraftTwin(in) == [in EXCEPT !.draft = ~in.draft]

\* the run that differs from this one only in the target anchor
AnchorTwin(in) ==
    [in EXCEPT !.giteeTargetCommitish = CHOOSE b \in Anchors : b # in.giteeTargetCommitish]

\* C16: the run that differs only in the draft flag passes validation exactly
\* when this one does and hands the Gitee adapter the same options, so the
\* adapter issues the same calls with the same outcome, and no Gitee call
\* carries a draft value; likewise the run that differs only in the target
\* anchor hands the GitHub adapter the same options, and no GitHub call
\* carries an anchor.
C16_IrrelevantFieldsIgnored ==
    /\ ValidatePlatforms(syncPlatforms, DraftTwin(inp)) =
            ValidatePlatforms(syncPlatforms, inp)
    /\ ValidatePlatforms(syncPlatforms, AnchorTwin(inp)) =
            ValidatePlatforms(syncPlatforms, inp)
    /\ GiteeOptions(DraftTwin(inp)) = GiteeOptions(inp)
    /\ GitHubOptions(AnchorTwin(inp)) = GitHubOptions(inp)
    /\ \A j \in DOMAIN AllCalls :
        /\ AllCalls[j].plat = "gitee" => AllCalls[j].draft = ""
        /\ AllCalls[j].plat = "github" => AllCalls[j].anchor = ""

\* a run with the draft flag set and a non-default anchor published on both
\* platforms
C16_Witness ==
    /\ syncPlatforms = <<"gitee", "github">>
    /\ inp.draft
    /\ inp.giteeTargetCommitish = "main"
    /\ pc = "done"
    /\ exitStatus = "success"
    /\ \E i, j \in DOMAIN AllCalls :
        /\ AllCalls[i].plat = "gitee" /\ AllCalls[i].op = "createRelease"
        /\ AllCalls[i].res = "ok"
        /\ AllCalls[j].plat = "github" /\ AllCalls[j].op = "createRelease"
        /\ AllCalls[j].res = "ok" /\ AllCalls[j].draft = "true"

\* C17: for a list of github and gitee entries, validation lets the run go on
\* exactly when every requested platform has its required fields (github-token
\* for github; gitee-token, gitee-owner and gitee-repo for gitee), whatever the
\* fields of a platform that is not requested; otherwise the run ends as failed.
C17_ConfigRequiredIffRequested ==
    [][(/\ pc = "validate"
        /\ \A j \in Positions : syncPlatforms[j] \in {"github", "gitee"}) =>
            /\ ~Misconfigured => pc' = "dispatch" /\ exitStatus' = "success"
            /\ Misconfigured => pc' = "done" /\ exitStatus' = "failed"]_vars

\* a run for github alone with no Gitee field set has published its release
C17_Witness ==
    /\ syncPlatforms = <<"github">>
    /\ inp.githubToken # ""
    /\ inp.giteeToken = "" /\ inp.giteeOwner = "" /\ inp.giteeRepo = ""
    /\ pc = "done"
    /\ exitStatus = "success"
    /\ invoked = <<1>>

\* the operations of the calls other than uploads of the running adapter
PhaseOps ==
    LET c == SelectSeq(calls, NotUpload) IN [j \in DOMAIN c |-> c[j].op]

\* the phases of a Gitee run that found the tag (found) or created it, with
\* the lookup (lookup) or without it
Phases(found, lookup) ==
    <<"getTag">> \o (IF found THEN <<>> ELSE <<"createTag">>) \o <<"createRelease">>
        \o (IF lookup THEN <<"getReleaseByTag">> ELSE <<>>)

FatalPhaseOps == {"createTag", "createRelease", "getReleaseByTag"}

\* C20: when a tag-create, release-create or get-release-by-tag call of the
\* Gitee adapter fails or times out, or the lookup answers without an
\* identifier, that call is the last call of the run: the run has ended as
\* failed at that adapter, no call is in flight and no upload was issued after it.
C20_GiteeSetupFailureIsFatal ==
    /\ \A j \in DOMAIN calls :
        (calls[j].plat = "gitee" /\ calls[j].op \in FatalPhaseOps /\ calls[j].res # "ok") =>
            /\ j = Len(calls)
            /\ pc = "done"
            /\ exitStatus = "failed"
            /\ fatalPos = calls[j].pos
            /\ inflight = <<>>
            /\ outcomes = <<>>
    /\ \A j \in DOMAIN history :
        (history[j].plat = "gitee" /\ history[j].op \in FatalPhaseOps) =>
            history[j].res = "ok"

\* the lookup answered without an identifier and the run has ended as failed
C20_Witness ==
    /\ pc = "done"
    /\ exitStatus = "failed"
    /\ calls # <<>>
    /\ calls[Len(calls)].op = "getReleaseByTag"
    /\ calls[Len(calls)].res = "ok_noid"

\* ------------------------------------------------- the resolver and a run
\* the paths of the scenario: 1 is a.txt, 2 is missing.txt
Paths == {1, 2}

\* a run for github alone, from the resolution of its asset input on: the
\* patterns match any lists of paths and any of the paths exist
ResolverInit ==
    /\ syncPlatforms = <<"github">>
    /\ globbed \in SeqUpTo(SeqUpTo(Paths, MaxMatches), MaxPatterns)
    /\ onDisk \in SUBSET Paths
    /\ platformsInput = syncPlatforms
    /\ inp \in {in \in Inputs : /\ in.assetFiles = <<>>
                               /\ in.githubToken # ""
                               /\ in.giteeToken = "" /\ in.giteeOwner = ""
                               /\ in.giteeRepo = ""
                               /\ in.giteeTargetCommitish = "master"}
    /\ run = 1
    /\ ghReleases = 0
    /\ giteeTag = FALSE
    /\ giteeReleases = 0
    /\ atStart = [ghReleases |-> 0, giteeTag |-> giteeTag, giteeReleases |-> 0]
    /\ pc = "resolve"
    /\ pidx = 0
    /\ exitStatus = "success"
    /\ k = 0
    /\ releaseId = 0
    /\ successCount = 0
    /\ skipCount = 0
    /\ failCount = 0
    /\ calls = <<>>
    /\ history = <<>>
    /\ outcomes = <<>>
    /\ invoked = <<>>
    /\ fatalPos = 0
    /\ inflight = <<>>

ResolverNext ==
    \/ ResolveAssets
    \/ IssueCall
    \/ Validate
    \/ StartGitHub
    \/ Completed
    \/ GhCreateRelease
    \/ GhGetFileInfo
    \/ GhUpload
    \/ GhReturn

ResolverSpec == ResolverInit /\ [][ResolverNext]_vars

\* the matches of all patterns, in the order glob gave them
Matched == Flatten(globbed)

\* C18: once the asset input is resolved, the asset list has no path twice,
\* holds exactly the matched paths that exist, in the order of their first
\* match, and resolution has raised no error; when a.txt is matched and exists
\* and missing.txt does not exist, the list is a.txt alone and the adapter
\* deals with one asset: at most one upload call, and it is for a.txt.
C18_ResolverDedupExisting ==
    pc # "resolve" =>
        LET r == inp.assetFiles IN
        /\ \A i, j \in DOMAIN r : i # j => r[i] # r[j]
        /\ {r[i] : i \in DOMAIN r} = {Matched[i] : i \in DOMAIN Matched} \cap onDisk
        /\ \A i, j \in DOMAIN r :
            i < j => \E a \in DOMAIN Matched :
                        /\ Matched[a] = r[i]
                        /\ \A b \in 1..a : Matched[b] # r[j]
        /\ pc = "validate" => exitStatus = "success"
        /\ (globbed \in {<<<<1>>, <<2>>>>, <<<<1>>, <<>>>>} /\ onDisk = {1}) =>
            /\ r = <<1>>
            /\ Len(outcomes) <= 1
            /\ pc = "gh_return" => Len(outcomes) = 1
            /\ Cardinality(GhUploads) <= 1
            /\ \A j \in GhUploads : calls[j].asset = 1

\* a.txt and missing.txt were matched, missing.txt is gone, and the adapter has
\* uploaded a.txt and come to its end
C18_Witness ==
    /\ globbed = <<<<1>>, <<2>>>>
    /\ onDisk = {1}
    /\ pc = "gh_return"
    /\ Cardinality(GhUploads) = 1
    /\ outcomes = <<"uploaded">>

\* the running Gitee adapter has obtained the release identifier: it is in
\* its asset loop or past it
GiteeLoopEntered ==
    \E j \in DOMAIN calls : calls[j].op = "getReleaseByTag" /\ calls[j].res = "ok"

\* C21: once the Gitee adapter is in its asset loop it never becomes fatal and
\* the run stays at success; after a failed or timed-out upload for an asset
\* the loop has gone on to a later asset or has ended, and it ends only when
\* every asset of the list has been dealt with.
C21_GiteeLoopNeverAborts ==
    GiteeLoopEntered =>
        /\ pc \in {"gt_getFileInfo", "gt_upload", "gt_return"}
        /\ fatalPos = 0
        /\ exitStatus = "success"
        /\ \A j \in DOMAIN calls :
            (calls[j].op = "attach_files" /\ calls[j].res \in Failures) =>
                \/ pc = "gt_return"
                \/ AssetIndex(calls[j].asset) < k
        /\ pc = "gt_return" =>
            /\ Len(outcomes) = Len(inp.assetFiles)
            /\ successCount + skipCount + failCount = Len(inp.assetFiles)

\* the upload of the first asset timed out, the second asset was uploaded and
\* the adapter has come to its end
C21_Witness ==
    /\ pc = "gt_return"
    /\ outcomes = <<"failed", "uploaded">>
    /\ \E j \in DOMAIN calls : calls[j].op = "attach_files" /\ calls[j].res = "timeout"
    /\ exitStatus = "success"

\* the calls at hand are those of a GitHub adapter run
GitHubRunning == calls # <<>> /\ calls[1].plat = "github"

GiteeRunning == calls # <<>> /\ calls[1].plat = "gitee"

\* the last call of the running adapter was op and gave res
LastCall(op, res) ==
    calls # <<>> /\ calls[Len(calls)].op = op /\ calls[Len(calls)].res = res

\* C23: the Gitee adapter stands at, and has issued, a tag-create call only
\* right after the probe answered not-found, a release-create call only right
\* after the probe found the tag or the tag-create call succeeded, a
\* get-release-by-tag call only right after the release-create call succeeded,
\* and an upload only after the lookup gave the identifier, which every upload
\* call carries.
C23_GiteePhaseOrder ==
    /\ pc = "gt_getTag" => calls = <<>>
    /\ pc = "gt_createTag" => LastCall("getTag", "http_404")
    /\ pc = "gt_createRelease" => LastCall("getTag", "ok") \/ LastCall("createTag", "ok")
    /\ pc = "gt_getRelease" => LastCall("createRelease", "ok")
    /\ pc \in {"gt_getFileInfo", "gt_upload"} => GiteeLoopEntered /\ releaseId # 0
    /\ GiteeRunning =>
        /\ calls[1].op = "getTag"
        /\ \A j \in 2..Len(calls) :
            /\ calls[j].op # "getTag"
            /\ calls[j].op = "createTag" =>
                calls[j - 1].op = "getTag" /\ calls[j - 1].res = "http_404"
            /\ calls[j].op = "createRelease" =>
                /\ calls[j - 1].op \in {"getTag", "createTag"}
                /\ calls[j - 1].res = "ok"
            /\ calls[j].op = "getReleaseByTag" =>
                calls[j - 1].op = "createRelease" /\ calls[j - 1].res = "ok"
            /\ calls[j].op = "attach_files" =>
                /\ \E i \in 1..(j - 1) :
                    calls[i].op = "getReleaseByTag" /\ calls[i].res = "ok"
                /\ calls[j].rid = releaseId
                /\ releaseId = giteeReleases
                /\ releaseId # 0

\* a Gitee run that created the tag has issued its first upload, as fifth call
C23_Witness ==
    /\ Len(calls) >= 5
    /\ calls[2].op = "createTag"
    /\ calls[4].op = "getReleaseByTag"
    /\ calls[5].op = "attach_files"

\* C24: in both adapters an asset whose file information is absent gets no
\* upload call, and right after it was skipped the run is not fatal and the
\* loop stands at the next asset of the list, or has ended if it was the last.
C24_AbsentFileSkipped ==
    \A i \in DOMAIN outcomes :
        outcomes[i] = "skipped" =>
            /\ \A j \in DOMAIN calls :
                IsUpload(calls[j]) => calls[j].asset # inp.assetFiles[i]
            /\ i = Len(outcomes) =>
                /\ fatalPos = 0
                /\ exitStatus = "success"
                /\ inflight = <<>> \/ inflight[1].asset = i + 1
                /\ IF i < Len(inp.assetFiles)
                   THEN /\ k = i + 1
                        /\ pc \in {"gh_getFileInfo", "gh_upload",
                                   "gt_getFileInfo", "gt_upload"}
                   ELSE pc \in {"gh_return", "gt_return"}

\* the GitHub adapter skipped the first asset and has uploaded the second
C24_Witness ==
    /\ pc = "gh_return"
    /\ outcomes = <<"skipped", "uploaded">>
    /\ Cardinality(GhUploads) = 1

\* the release-create calls of the run, in the order they were issued
ReleaseCreates ==
    LET IsCreate(c) == c.op = "createRelease" IN SelectSeq(AllCalls, IsCreate)

\* C25: when the run has ended with success, the release-create calls of the
\* run are one per entry of the platform list, in list order, each issued to
\* the platform the entry names and each successful.
C25_SuccessMeansOneReleasePerEntry ==
    (pc = "done" /\ exitStatus = "success") =>
        /\ Len(ReleaseCreates) = Len(syncPlatforms)
        /\ \A p \in Positions :
            /\ ReleaseCreates[p].pos = p
            /\ ReleaseCreates[p].plat = syncPlatforms[p]
            /\ ReleaseCreates[p].res = "ok"

\* ------------------------------------------- the platform list and a run
\* items of the platforms input after split(','), as written by the user
RawItems == {"github", "gitee", " GitHub", ""}

\* a run from the parsing of its platform list on, with every field of both
\* platforms set; the input is required, so it is not the empty string
ParseInit ==
    /\ platformsInput \in {raw \in SeqUpTo(RawItems, MaxPlatforms) :
                                raw # <<>> /\ raw # <<"">>}
    /\ syncPlatforms = <<>>
    /\ inp \in {in \in Inputs : /\ in.githubToken # ""
                               /\ in.giteeToken # "" /\ in.giteeOwner # ""
                               /\ in.giteeRepo # ""
                               /\ in.draft = FALSE
                               /\ in.giteeTargetCommitish = "master"}
    /\ run = 1
    /\ ghReleases = 0
    /\ giteeTag \in BOOLEAN
    /\ giteeReleases = 0
    /\ atStart = [ghReleases |-> 0, giteeTag |-> giteeTag, giteeReleases |-> 0]
    /\ pc = "parse"
    /\ pidx = 0
    /\ exitStatus = "success"
    /\ k = 0
    /\ releaseId = 0
    /\ successCount = 0
    /\ skipCount = 0
    /\ failCount = 0
    /\ calls = <<>>
    /\ history = <<>>
    /\ outcomes = <<>>
    /\ invoked = <<>>
    /\ fatalPos = 0
    /\ inflight = <<>>
    /\ globbed = <<inp.assetFiles>>
    /\ onDisk = {inp.assetFiles[j] : j \in DOMAIN inp.assetFiles}

ParseNext ==
    \/ ParseInput
    \/ IssueCall
    \/ Validate
    \/ StartGitHub
    \/ StartGitee
    \/ Completed
    \/ GhCreateRelease
    \/ GhGetFileInfo
    \/ GhUpload
    \/ GhReturn
    \/ GtGetTag
    \/ GtCreateTag
    \/ GtCreateRelease
    \/ GtGetRelease
    \/ GtGetFileInfo
    \/ GtUpload
    \/ GtReturn

ParseSpec == ParseInit /\ [][ParseNext]_vars

\* the items of the input that name a platform, in the order given
NamedItems == {j \in DOMAIN platformsInput : platformsInput[j] # ""}

\* the position up to which the run got: where it became fatal, or the end
LastPosition == IF fatalPos # 0 THEN fatalPos ELSE Len(syncPlatforms)

\* C26: the platform list has one entry for every non-empty item of the input,
\* repeated identifiers included; a run that has ended has invoked the adapter
\* once for every position, in list order, up to the position where it became
\* fatal; and the run of [github, github] that did not become fatal at the
\* first entry has issued a second release-create call for the same tag.
C26_ListNotDeduplicated ==
    pc # "parse" =>
        /\ Len(syncPlatforms) = Cardinality(NamedItems)
        /\ \A id \in {"github", "gitee"} :
            Cardinality({j \in Positions : syncPlatforms[j] = id}) =
                Cardinality({j \in NamedItems :
                                platformsInput[j] \in {id, " GitHub"}
                                /\ (platformsInput[j] = " GitHub" => id = "github")})
        /\ \A j \in DOMAIN invoked : invoked[j] = j
        /\ pc = "done" => Len(invoked) = LastPosition
        /\ (pc = "done" /\ syncPlatforms = <<"github", "github">> /\ fatalPos # 1) =>
            /\ Len(history) = 1
            /\ history[1].op = "createRelease" /\ history[1].res = "ok"
            /\ history[1].pos = 1
            /\ calls # <<>>
            /\ calls[1].op = "createRelease" /\ calls[1].pos = 2
            /\ calls[1].plat = "github"
            /\ calls[1].tag = history[1].tag

\* github was given twice, the first release was created and the second
\* release-create call was issued and refused
C26_Witness ==
    /\ platformsInput = <<"github", " GitHub">>
    /\ syncPlatforms = <<"github", "github">>
    /\ pc = "done"
    /\ invoked = <<1, 2>>
    /\ fatalPos = 2
    /\ Len(calls) = 1
    /\ calls[1].op = "createRelease"
    /\ calls[1].res # "ok"

\* ------------------------------------------------------------- termination
\* the steps the program takes by itself, from one await to the next
ProgramStep ==
    \/ IssueCall
    \/ Validate
    \/ StartGitHub
    \/ StartGitee
    \/ SkipUnexpected
    \/ Completed
    \/ GhGetFileInfo
    \/ GhReturn
    \/ GtGetFileInfo
    \/ GtReturn

\* an outbound call returns, with success or with a failure
CallReturns ==
    \/ GhCreateRelease
    \/ GhUpload
    \/ GtGetTag
    \/ GtCreateTag
    \/ GtCreateRelease
    \/ GtGetRelease
    \/ GtUpload

\* the program keeps running while it has a step to take, and every call that
\* is in flight returns; whether the action is run again is left open
FairSpec == Init /\ [][Next]_vars /\ WF_vars(ProgramStep) /\ WF_vars(CallReturns)

\* C27: if every outbound call returns, every run comes to its end, with
\* success or failed status, whatever the platform list, the configuration
\* and the asset list.
C27_RunTerminates ==
    []<>(pc = "done" /\ exitStatus \in {"success", "failed"})

\* a run over two platforms with two assets has ended with success
C27_Witness ==
    /\ pc = "done"
    /\ exitStatus = "success"
    /\ Len(syncPlatforms) = 2
    /\ Len(invoked) = 2
    /\ Len(inp.assetFiles) = 2

====
